---- MODULE Spec2Model ----
(***************************************************************************)
(* Tabular Q-learning over a quantum-circuit environment (qlearning.py).   *)
(*                                                                         *)
(* QuantumEnv builds a circuit gate by gate, buckets it through a hash     *)
(* into a dense state index, and scores it against the iSWAP unitary.      *)
(* QLearningAgent keeps the Q-table and the exploration rate.              *)
(* train_agent / test_agent drive episodes of agent-environment steps.     *)
(*                                                                         *)
(* Real numbers (Q-values, epsilon, fidelity, hyper-parameters) are        *)
(* float64 in the program; here they are fixed-point integers counting     *)
(* units of 1/Scale, products rounded to the nearest unit.                 *)
(*                                                                         *)
(* Four specifications:                                                    *)
(*   Spec      the program of __main__: train_agent, then test_agent       *)
(*   SpecEnv   a QuantumEnv whose reset/step are called in any order       *)
(*   SpecAgent a QLearningAgent: choose_action / update_q_table calls      *)
(*   SpecDecay a QLearningAgent: successive decay_exploration calls        *)
(***************************************************************************)
EXTENDS Integers, Sequences, FiniteSets, TLC

VARIABLES
    \* QuantumEnv
    circuit,            \* self.circuit: the sequence of appended [gate, qubits]
    state_to_index,     \* self.state_to_index: dict bucket id -> dense index
    index_to_state,     \* self.index_to_state: list of bucket ids
    sha_salt,           \* which digest function stands in for SHA-256
    \* QLearningAgent
    q_table,            \* self.q_table[state][action]
    alpha, gamma,       \* learning rate, discount
    epsilon, decay_rate, epsilon_min,
    \* train_agent / test_agent
    pc,                 \* position in the program
    episodes, max_steps_per_episode,
    episode,            \* episodes completed by the running loop
    step,               \* iterations of the step loop executed in this episode
    state_index,
    episode_reward,
    error,              \* the exception that ended the program, or "none"
    \* observation of the most recent call (arguments, results, state before)
    last,
    first_op,           \* first operation performed on the environment
    calls,              \* state-changing calls made by the agent drivers
    decay_calls         \* calls of decay_exploration so far

vars == <<circuit, state_to_index, index_to_state, sha_salt,
          q_table, alpha, gamma, epsilon, decay_rate, epsilon_min,
          pc, episodes, max_steps_per_episode, episode, step, state_index,
          episode_reward, error, last, first_op, calls, decay_calls>>

env_vars   == <<circuit, state_to_index, index_to_state>>
agent_vars == <<q_table, epsilon>>
hyper_vars == <<alpha, gamma, decay_rate, epsilon_min, sha_salt>>
loop_vars  == <<pc, episodes, max_steps_per_episode, episode, step,
                state_index, episode_reward, error>>

----------------------------------------------------------------------------
(* Bounds of the model *)

\* Bucket ids are hash % HashBuckets; the program hard-codes 100 (line 81).
\* Scaled down so that the State Index Table can actually fill up.
HashBuckets == 3
\* QLearningAgent(state_size=..., action_size=...): __main__ passes 100 and
\* 14. state_size follows the bucket count as in __main__ (100 and 100).
action_size == 2
\* train_agent(episodes=...), test_agent(episodes=...)
MaxEpisodes == 2
\* max_steps_per_episode of the short and of the long training runs
ShortSteps == 1
LongSteps == 12
\* longest circuit the SpecEnv driver builds
MaxCircuit == 3
\* state-changing method calls the SpecAgent driver makes
MaxAgentCalls == 2

state_size == HashBuckets

----------------------------------------------------------------------------
(* Fixed-point arithmetic standing in for float64 *)

Scale == 100

\* x * y for two fixed-point numbers, rounded to the nearest unit
FxMul(x, y) == (2 * x * y + Scale) \div (2 * Scale)

\* an integer as a fixed-point number
Fx(n) == n * Scale

Max2(x, y) == IF x >= y THEN x ELSE y

Range(f) == {f[i] : i \in DOMAIN f}

----------------------------------------------------------------------------
(* QuantumEnv *)

\* possible_actions: the 14 [gate, qubits] pairs, in the order of the list
possible_actions ==
    << [gate |-> "h",  qubits |-> <<0>>],
       [gate |-> "h",  qubits |-> <<1>>],
       [gate |-> "cx", qubits |-> <<0, 1>>],
       [gate |-> "cx", qubits |-> <<1, 0>>],
       [gate |-> "s",  qubits |-> <<0>>],
       [gate |-> "s",  qubits |-> <<1>>],
       [gate |-> "t",  qubits |-> <<0>>],
       [gate |-> "t",  qubits |-> <<1>>],
       [gate |-> "x",  qubits |-> <<0>>],
       [gate |-> "x",  qubits |-> <<1>>],
       [gate |-> "y",  qubits |-> <<0>>],
       [gate |-> "y",  qubits |-> <<1>>],
       [gate |-> "z",  qubits |-> <<0>>],
       [gate |-> "z",  qubits |-> <<1>>] >>

\* QuantumCircuit(self.num_qubits): the empty circuit
EmptyCircuit == <<>>

\* circuit.size(): the number of gate instructions
circuit_size(c) == Len(c)

\* circuit.draw(output='text'): the rendering, one symbol per instruction
\* (the symbol of a gate on given qubits is its position in the catalog)
circuit_draw(c) ==
    [i \in 1..Len(c) |->
        CHOOSE k \in 1..Len(possible_actions) : possible_actions[k] = c[i]]

\* int(hashlib.sha256(text).hexdigest(), 16): a fixed function of the text.
\* SHA-256 itself is out of reach; the digest is one of a family of
\* polynomial digests, picked by `salt` when the environment is built and
\* never changed, so that nothing rests on one particular bucketing.
RECURSIVE sha256_int(_, _)
sha256_int(text, salt) ==
    IF text = <<>> THEN salt.base
    ELSE sha256_int(SubSeq(text, 1, Len(text) - 1), salt) * salt.mult
         + text[Len(text)]

Salts == {[base |-> 0, mult |-> 1], [base |-> 1, mult |-> 3]}

\* _hash_circuit: the bucket id of a circuit
hash_circuit_mod1(c, salt) == sha256_int(circuit_draw(c), salt) % (HashBuckets + 1)
hash_circuit(c, salt) == sha256_int(circuit_draw(c), salt) % HashBuckets

\* get_state_index: the dense index of the circuit's bucket, assigned on
\* first encounter. Returns the updated maps with the index.
get_state_index_append(s2i, i2s, c, salt) ==
    LET state_hash == hash_circuit(c, salt)
        index == Len(i2s)
    IN  [state_to_index |-> [b \in DOMAIN s2i \cup {state_hash} |->
                                IF b = state_hash THEN index ELSE s2i[b]],
         index_to_state |-> Append(i2s, state_hash),
         index |-> index]
get_state_index(s2i, i2s, c, salt) ==
    LET state_hash == hash_circuit(c, salt)
    IN  IF state_hash \notin DOMAIN s2i
        THEN LET index == Cardinality(DOMAIN s2i)
             IN  [state_to_index |-> [b \in DOMAIN s2i \cup {state_hash} |->
                                         IF b = state_hash THEN index ELSE s2i[b]],
                  index_to_state |-> Append(i2s, state_hash),
                  index |-> index]
        ELSE [state_to_index |-> s2i,
              index_to_state |-> i2s,
              index |-> s2i[state_hash]]

\* fidelity > 0.99
FidelityThreshold == (99 * Scale) \div 100

\* |trace(U^dagger . target)| / 4 comes from the unitary simulator, which is
\* not modelled: a step may meet any of these fidelities.
FidelityVals == {0, FidelityThreshold, Scale}

\* _reward: (reward, done) of the circuit, given the simulator's fidelity
reward_incremental(c, fidelity) ==
    IF fidelity > FidelityThreshold
    THEN [reward |-> -5 + 100, done |-> TRUE]
    ELSE [reward |-> -5, done |-> FALSE]
reward_of(c, fidelity) ==
    LET reward == -5 * circuit_size(c)
    IN  IF fidelity > FidelityThreshold
        THEN [reward |-> reward + 100, done |-> TRUE]
        ELSE [reward |-> reward, done |-> FALSE]

\* reset: a fresh empty circuit and its state index
env_reset(s2i, i2s, salt) ==
    LET r == get_state_index(s2i, i2s, EmptyCircuit, salt)
    IN  [circuit |-> EmptyCircuit,
         state_to_index |-> r.state_to_index,
         index_to_state |-> r.index_to_state,
         index |-> r.index]

\* step(action, qubits): append, index the new circuit, score it
env_step(c, s2i, i2s, salt, entry, fidelity) ==
    LET c2 == Append(c, entry)
        r == get_state_index(s2i, i2s, c2, salt)
        rw == reward_of(c2, fidelity)
    IN  [circuit |-> c2,
         state_to_index |-> r.state_to_index,
         index_to_state |-> r.index_to_state,
         index |-> r.index,
         reward |-> rw.reward,
         done |-> rw.done]

----------------------------------------------------------------------------
(* QLearningAgent *)

States == 0..(state_size - 1)
Actions == 0..(action_size - 1)

\* np.zeros((state_size, action_size))
ZeroTable == [s \in States |-> [a \in Actions |-> 0]]

\* np.argmax(row): the first index holding the maximum
np_argmax_last(row) ==
    CHOOSE i \in DOMAIN row :
        /\ \A j \in DOMAIN row : row[j] <= row[i]
        /\ \A j \in DOMAIN row : j > i => row[j] < row[i]
np_argmax(row) ==
    CHOOSE i \in DOMAIN row :
        /\ \A j \in DOMAIN row : row[j] <= row[i]
        /\ \A j \in DOMAIN row : j < i => row[j] < row[i]

\* np.max(row)
np_max(row) == CHOOSE v \in Range(row) : \A j \in DOMAIN row : row[j] <= v

\* np.random.rand() lies in [0, 1)
RandVals == {0, Scale - 1}

\* choose_action: rand and randint are the two draws of the generator
\* (randint is only consumed on the exploring branch). Returns the catalog
\* entry and its index.
choose_action_le(q, eps, s, rand, randint) ==
    LET action == IF rand <= eps THEN randint ELSE np_argmax(q[s])
    IN  [entry |-> possible_actions[action + 1], index |-> action]
choose_action(q, eps, s, rand, randint) ==
    LET action == IF rand < eps THEN randint ELSE np_argmax(q[s])
    IN  [entry |-> possible_actions[action + 1], index |-> action]

\* update_q_table: q[s, a] += alpha * (reward + gamma * max(q[s2]) - q[s, a])
\* The augmented assignment reads q[s, a] and evaluates the right-hand side
\* on the table as it is, then stores.
update_q_table_row(q, al, ga, s, a, reward, s2) ==
    LET old == q[s][a]
        td == Fx(reward) + FxMul(ga, np_max(q[s2])) - old
        new == old + FxMul(al, td)
    IN  [q EXCEPT ![s] = [b \in Actions |-> new]]
update_q_table(q, al, ga, s, a, reward, s2) ==
    LET old == q[s][a]
        td == Fx(reward) + FxMul(ga, np_max(q[s2])) - old
        new == old + FxMul(al, td)
    IN  [q EXCEPT ![s][a] = new]

\* decay_exploration: epsilon = max(epsilon_min, epsilon * decay_rate)
decay_exploration_min(eps, eps_min, rate) ==
    LET x == FxMul(eps, rate) IN IF x <= eps_min THEN x ELSE eps_min
decay_exploration(eps, eps_min, rate) == Max2(eps_min, FxMul(eps, rate))

----------------------------------------------------------------------------
(* Construction *)

\* QLearningAgent(..., alpha=0.05, gamma=0.95, epsilon=0.9, decay_rate=0.99,
\* epsilon_min=0.01) in __main__
MainAlpha      == (5 * Scale) \div 100
MainGamma      == (95 * Scale) \div 100
MainEpsilon    == (9 * Scale) \div 10
MainDecayRate  == (99 * Scale) \div 100
MainEpsilonMin == Scale \div 100

\* QuantumEnv.__init__: empty circuit, empty maps
EnvInit ==
    /\ circuit = EmptyCircuit
    /\ state_to_index = <<>>
    /\ index_to_state = <<>>
    /\ sha_salt \in Salts

\* QLearningAgent.__init__
AgentInit(al, ga, eps, rate, eps_min) ==
    /\ q_table = ZeroTable
    /\ alpha = al
    /\ gamma = ga
    /\ epsilon = eps
    /\ decay_rate = rate
    /\ epsilon_min = eps_min

NoCall == [op |-> "none"]

\* the loops are not running
LoopIdle ==
    /\ pc = "driver"
    /\ episodes = 0
    /\ max_steps_per_episode = 0
    /\ episode = 0
    /\ step = 0
    /\ state_index = 0
    /\ episode_reward = 0
    /\ error = "none"

----------------------------------------------------------------------------
(* SpecEnv: reset() and step() of one QuantumEnv, called in any order *)

InitEnv ==
    /\ EnvInit
    /\ AgentInit(MainAlpha, MainGamma, MainEpsilon, MainDecayRate, MainEpsilonMin)
    /\ LoopIdle
    /\ last = NoCall
    /\ first_op = "none"
    /\ calls = 0
    /\ decay_calls = 0

EnvReset ==
    LET r == env_reset(state_to_index, index_to_state, sha_salt)
    IN  /\ circuit' = r.circuit
        /\ state_to_index' = r.state_to_index
        /\ index_to_state' = r.index_to_state
        /\ last' = [op |-> "reset", index |-> r.index,
                    size_before |-> circuit_size(circuit),
                    prev_op |-> last.op]
        /\ first_op' = IF first_op = "none" THEN "reset" ELSE first_op
        /\ UNCHANGED <<agent_vars, hyper_vars, loop_vars, calls, decay_calls>>

EnvStep ==
    /\ circuit_size(circuit) < MaxCircuit
    /\ \E k \in 1..action_size, fidelity \in FidelityVals :
        LET r == env_step(circuit, state_to_index, index_to_state, sha_salt,
                          possible_actions[k], fidelity)
        IN  /\ circuit' = r.circuit
            /\ state_to_index' = r.state_to_index
            /\ index_to_state' = r.index_to_state
            /\ last' = [op |-> "step", index |-> r.index,
                        reward |-> r.reward, done |-> r.done,
                        fidelity |-> fidelity,
                        size_before |-> circuit_size(circuit),
                        prev_op |-> last.op]
    /\ first_op' = IF first_op = "none" THEN "step" ELSE first_op
    /\ UNCHANGED <<agent_vars, hyper_vars, loop_vars, calls, decay_calls>>

NextEnv == EnvReset \/ EnvStep

SpecEnv == InitEnv /\ [][NextEnv]_vars

----------------------------------------------------------------------------
(* Spec: train_agent followed by test_agent, as __main__ runs them *)

\* def step(self, action, qubits): the parameters a call must bind
step_params == <<"action", "qubits">>

\* environment.step(action[0], action[1]) in train_agent
train_step_args(choice) == <<choice.entry.gate, choice.entry.qubits>>

\* environment.step(action) in test_agent: action is everything
\* choose_action returned, passed as one positional argument
test_step_args(choice) == << <<choice.entry, choice.index>> >>

\* a call environment.step(*args): Python raises TypeError before the body
\* runs unless the arguments bind step's parameters one for one
call_step(c, s2i, i2s, salt, args, fidelity) ==
    IF Len(args) # Len(step_params)
    THEN [raised |-> "TypeError"]
    ELSE [raised |-> "none",
          result |-> env_step(c, s2i, i2s, salt,
                              [gate |-> args[1], qubits |-> args[2]], fidelity)]

\* environment.circuit.size() > 10
GateLimit == 10
exceeds_gate_limit_off_by_one(size) == size > GateLimit + 1
exceeds_gate_limit(size) == size > GateLimit

\* The body of train_agent's step loop after environment.step returned
\* (reward, s2, done) for action a chosen in state s: accumulate the reward,
\* update the Q-table, move to s2, then break on done or on the gate limit.
loop_body_break_first(q, al, ga, er, s, a, reward, s2, done, size) ==
    IF done
    THEN [q_table |-> update_q_table(q, al, ga, s, a, reward, s2),
          episode_reward |-> er + reward, state_index |-> s2,
          outcome |-> "done"]
    ELSE IF exceeds_gate_limit(size)
    THEN [q_table |-> q,
          episode_reward |-> er + reward - 100, state_index |-> s2,
          outcome |-> "truncated"]
    ELSE [q_table |-> update_q_table(q, al, ga, s, a, reward, s2),
          episode_reward |-> er + reward, state_index |-> s2,
          outcome |-> "continue"]
loop_body(q, al, ga, er, s, a, reward, s2, done, size) ==
    LET er1 == er + reward
        q1 == update_q_table(q, al, ga, s, a, reward, s2)
    IN  IF done
        THEN [q_table |-> q1, episode_reward |-> er1, state_index |-> s2,
              outcome |-> "done"]
        ELSE IF exceeds_gate_limit(size)
        THEN [q_table |-> q1, episode_reward |-> er1 - 100, state_index |-> s2,
              outcome |-> "truncated"]
        ELSE [q_table |-> q1, episode_reward |-> er1, state_index |-> s2,
              outcome |-> "continue"]

\* train_agent(agent, environment, episodes, max_steps_per_episode) and the
\* exploration schedule of the agent it is given: short exploring episodes,
\* and long greedy ones that run into the gate limit.
TrainConfigs ==
    { [episodes |-> MaxEpisodes, max_steps |-> ShortSteps,
       epsilon |-> MainEpsilon, epsilon_min |-> MainEpsilonMin],
      [episodes |-> MaxEpisodes, max_steps |-> LongSteps,
       epsilon |-> 0, epsilon_min |-> 0] }

Init ==
    /\ EnvInit
    /\ \E cfg \in TrainConfigs :
        /\ AgentInit(MainAlpha, MainGamma, cfg.epsilon, MainDecayRate,
                     cfg.epsilon_min)
        /\ episodes = cfg.episodes
        /\ max_steps_per_episode = cfg.max_steps
    /\ pc = "train_reset"
    /\ episode = 0
    /\ step = 0
    /\ state_index = 0
    /\ episode_reward = 0
    /\ error = "none"
    /\ last = NoCall
    /\ first_op = "none"
    /\ calls = 0
    /\ decay_calls = 0

\* train_agent, top of the episode loop: reset, episode_reward = 0
TrainReset ==
    /\ pc = "train_reset"
    /\ LET r == env_reset(state_to_index, index_to_state, sha_salt)
       IN  /\ circuit' = r.circuit
           /\ state_to_index' = r.state_to_index
           /\ index_to_state' = r.index_to_state
           /\ state_index' = r.index
           /\ last' = [op |-> "reset", index |-> r.index,
                       size_before |-> circuit_size(circuit),
                       prev_op |-> last.op]
    /\ episode_reward' = 0
    /\ step' = 0
    /\ pc' = IF max_steps_per_episode > 0 THEN "train_step" ELSE "episode_end"
    /\ first_op' = IF first_op = "none" THEN "reset" ELSE first_op
    /\ UNCHANGED <<agent_vars, hyper_vars, episodes, max_steps_per_episode,
                   episode, error, calls, decay_calls>>

\* train_agent, one iteration of the step loop
TrainStep ==
    /\ pc = "train_step"
    /\ \E rand \in RandVals, randint \in Actions, fidelity \in FidelityVals :
        LET choice == choose_action(q_table, epsilon, state_index, rand, randint)
            call == call_step(circuit, state_to_index, index_to_state, sha_salt,
                              train_step_args(choice), fidelity)
        IN  IF call.raised # "none"
            THEN /\ error' = call.raised
                 /\ pc' = "crashed"
                 /\ last' = [op |-> "raise"]
                 /\ UNCHANGED <<env_vars, q_table, episode_reward, state_index,
                                step>>
            ELSE LET r == call.result
                     b == loop_body(q_table, alpha, gamma, episode_reward,
                                    state_index, choice.index, r.reward,
                                    r.index, r.done, circuit_size(r.circuit))
                     outcome ==
                        IF b.outcome = "continue"
                           /\ step + 1 >= max_steps_per_episode
                        THEN "exhausted" ELSE b.outcome
                 IN  /\ circuit' = r.circuit
                     /\ state_to_index' = r.state_to_index
                     /\ index_to_state' = r.index_to_state
                     /\ q_table' = b.q_table
                     /\ episode_reward' = b.episode_reward
                     /\ state_index' = b.state_index
                     /\ step' = step + 1
                     /\ pc' = IF outcome = "continue"
                              THEN "train_step" ELSE "episode_end"
                     /\ error' = error
                     /\ last' = [op |-> "train_step", s |-> state_index,
                                 a |-> choice.index, reward |-> r.reward,
                                 s2 |-> r.index, done |-> r.done,
                                 outcome |-> outcome, q_before |-> q_table,
                                 er_before |-> episode_reward]
    /\ UNCHANGED <<epsilon, hyper_vars, episodes, max_steps_per_episode,
                   episode, first_op, calls, decay_calls>>

\* train_agent, after the step loop: the progress line, decay_exploration
TrainEpisodeEnd_decay_with_log ==
    /\ pc = "episode_end"
    /\ IF (episode + 1) % 100 = 0
       THEN /\ epsilon' = decay_exploration(epsilon, epsilon_min, decay_rate)
            /\ decay_calls' = decay_calls + 1
       ELSE UNCHANGED <<epsilon, decay_calls>>
    /\ episode' = IF episode + 1 < episodes THEN episode + 1 ELSE 0
    /\ pc' = IF episode + 1 < episodes THEN "train_reset" ELSE "test_reset"
    /\ last' = [op |-> "decay", eps_before |-> epsilon,
                outcome |-> IF last.op = "train_step" THEN last.outcome
                            ELSE "exhausted"]
    /\ UNCHANGED <<env_vars, q_table, hyper_vars, episodes,
                   max_steps_per_episode, step, state_index, episode_reward,
                   error, first_op, calls>>
TrainEpisodeEnd ==
    /\ pc = "episode_end"
    /\ epsilon' = decay_exploration(epsilon, epsilon_min, decay_rate)
    /\ decay_calls' = decay_calls + 1
    /\ episode' = IF episode + 1 < episodes THEN episode + 1 ELSE 0
    /\ pc' = IF episode + 1 < episodes THEN "train_reset" ELSE "test_reset"
    /\ last' = [op |-> "decay", eps_before |-> epsilon,
                outcome |-> IF last.op = "train_step" THEN last.outcome
                            ELSE "exhausted"]
    /\ UNCHANGED <<env_vars, q_table, hyper_vars, episodes,
                   max_steps_per_episode, step, state_index, episode_reward,
                   error, first_op, calls>>

\* test_agent, top of the episode loop: reset twice
TestReset ==
    /\ pc = "test_reset"
    /\ LET r1 == env_reset(state_to_index, index_to_state, sha_salt)
           r2 == env_reset(r1.state_to_index, r1.index_to_state, sha_salt)
       IN  /\ circuit' = r2.circuit
           /\ state_to_index' = r2.state_to_index
           /\ index_to_state' = r2.index_to_state
           /\ state_index' = r2.index
           /\ last' = [op |-> "reset", index |-> r2.index,
                       size_before |-> 0, prev_op |-> "reset"]
    /\ step' = 0
    /\ pc' = IF max_steps_per_episode > 0 THEN "test_step"
             ELSE IF episode + 1 < episodes THEN "test_reset" ELSE "finished"
    /\ episode' = IF max_steps_per_episode > 0 THEN episode ELSE episode + 1
    /\ UNCHANGED <<agent_vars, hyper_vars, episodes, max_steps_per_episode,
                   episode_reward, error, first_op, calls, decay_calls>>

\* test_agent, one iteration of the step loop
TestStep ==
    /\ pc = "test_step"
    /\ \E rand \in RandVals, randint \in Actions, fidelity \in FidelityVals :
        LET choice == choose_action(q_table, epsilon, state_index, rand, randint)
            call == call_step(circuit, state_to_index, index_to_state, sha_salt,
                              test_step_args(choice), fidelity)
        IN  IF call.raised # "none"
            THEN /\ error' = call.raised
                 /\ pc' = "crashed"
                 /\ last' = [op |-> "raise"]
                 /\ UNCHANGED <<env_vars, state_index, step, episode>>
            ELSE LET r == call.result
                     over == r.done \/ step + 1 >= max_steps_per_episode
                 IN  /\ circuit' = r.circuit
                     /\ state_to_index' = r.state_to_index
                     /\ index_to_state' = r.index_to_state
                     /\ state_index' = r.index
                     /\ step' = step + 1
                     /\ episode' = IF over THEN episode + 1 ELSE episode
                     /\ pc' = IF ~over THEN "test_step"
                              ELSE IF episode + 1 < episodes THEN "test_reset"
                              ELSE "finished"
                     /\ error' = error
                     /\ last' = [op |-> "test_step", s |-> state_index,
                                 a |-> choice.index, reward |-> r.reward,
                                 s2 |-> r.index, done |-> r.done]
    /\ UNCHANGED <<agent_vars, hyper_vars, episodes, max_steps_per_episode,
                   episode_reward, first_op, calls, decay_calls>>

Next == TrainReset \/ TrainStep \/ TrainEpisodeEnd \/ TestReset \/ TestStep

Spec == Init /\ [][Next]_vars

----------------------------------------------------------------------------
(* Claims about QuantumEnv, checked under SpecEnv *)

\* C3: with n the number of gates after the append, step returns
\* (-5*n, false) when the fidelity is not above 0.99 and (100 - 5*n, true)
\* when it is; n is one more than before the step, so the k-th step after a
\* reset returns -5*k (or 100 - 5*k): the whole-circuit penalty, not a delta.
C3_StepReward ==
    last.op = "step" =>
        LET n == circuit_size(circuit)
        IN  /\ n = last.size_before + 1
            /\ 100 * last.fidelity <= 99 * Scale =>
                    last.reward = -5 * n /\ last.done = FALSE
            /\ 100 * last.fidelity > 99 * Scale =>
                    last.reward = 100 - 5 * n /\ last.done = TRUE

\* the second step after a reset reaches the threshold: reward 90, done
C3_Witness ==
    /\ last.op = "step"
    /\ circuit_size(circuit) = 2
    /\ last.done
    /\ last.reward = 90

\* C4: on an environment whose first operation is reset(), every reset()
\* returns state index 0, however much the State Index Table has grown.
C4_ResetIndexZero ==
    (first_op = "reset" /\ last.op = "reset") => last.index = 0

\* two resets in a row, after steps that added rows to the table
C4_Witness ==
    /\ first_op = "reset"
    /\ last.op = "reset"
    /\ last.prev_op = "reset"
    /\ Len(index_to_state) >= 2
    /\ last.index = 0

\* C9: every state index returned lies in [0, state_size); the State Index
\* Table is keyed by bucket ids in [0, HashBuckets), never holds more
\* entries than that, and every dense index it holds is a Q-table row.
C9_IndexInRange ==
    /\ DOMAIN state_to_index \subseteq 0..(HashBuckets - 1)
    /\ Cardinality(DOMAIN state_to_index) <= HashBuckets
    /\ Len(index_to_state) <= HashBuckets
    /\ \A b \in DOMAIN state_to_index : state_to_index[b] \in States
    /\ last.op \in {"reset", "step"} => last.index \in States

\* the table is full and the call returned the last row
C9_Witness ==
    /\ Cardinality(DOMAIN state_to_index) = HashBuckets
    /\ last.op = "step"
    /\ last.index = state_size - 1

----------------------------------------------------------------------------
(* SpecAgent: choose_action and update_q_table of one QLearningAgent,     *)
(* called in any order with arguments the driver picks                    *)

\* (alpha, gamma, epsilon) the agent is constructed with
AgentHypers ==
    { [alpha |-> MainAlpha, gamma |-> MainGamma, epsilon |-> 0],
      [alpha |-> Scale \div 2, gamma |-> Scale, epsilon |-> MainEpsilon] }

\* rows and rewards the driver passes: a plain step and a terminal one
DriverStates == {0, 1}
DriverRewards == {-5, 95}

InitAgent ==
    /\ EnvInit
    /\ sha_salt = [base |-> 0, mult |-> 1]
    /\ \E h \in AgentHypers :
        AgentInit(h.alpha, h.gamma, h.epsilon, MainDecayRate, MainEpsilonMin)
    /\ LoopIdle
    /\ last = NoCall
    /\ first_op = "none"
    /\ calls = 0
    /\ decay_calls = 0

AgentChoose ==
    /\ \E s \in DriverStates, rand \in RandVals, randint \in Actions :
        LET r == choose_action(q_table, epsilon, s, rand, randint)
        IN  last' = [op |-> "choose", s |-> s, rand |-> rand,
                     index |-> r.index, entry |-> r.entry]
    /\ UNCHANGED <<env_vars, agent_vars, hyper_vars, loop_vars, first_op, calls,
                   decay_calls>>

AgentUpdate ==
    /\ calls < MaxAgentCalls
    /\ \E s \in DriverStates, a \in Actions, r \in DriverRewards,
          s2 \in DriverStates :
        /\ q_table' = update_q_table(q_table, alpha, gamma, s, a, r, s2)
        /\ last' = [op |-> "update", s |-> s, a |-> a, reward |-> r,
                    s2 |-> s2, q_before |-> q_table]
    /\ calls' = calls + 1
    /\ UNCHANGED <<env_vars, epsilon, hyper_vars, loop_vars, first_op, decay_calls>>

NextAgent == AgentChoose \/ AgentUpdate

SpecAgent == InitAgent /\ [][NextAgent]_vars

----------------------------------------------------------------------------
(* SpecDecay: decay_exploration called repeatedly on an agent constructed *)
(* with any epsilon, decay_rate and epsilon_min                           *)

EpsilonVals    == {0, MainEpsilonMin, Scale \div 2, MainEpsilon, Scale}
DecayRateVals  == {0, Scale \div 2, MainDecayRate, Scale, (3 * Scale) \div 2}
EpsilonMinVals == {0, MainEpsilonMin, Scale \div 2}

InitDecay ==
    /\ EnvInit
    /\ sha_salt = [base |-> 0, mult |-> 1]
    /\ \E eps \in EpsilonVals, rate \in DecayRateVals, eps_min \in EpsilonMinVals :
        AgentInit(MainAlpha, MainGamma, eps, rate, eps_min)
    /\ LoopIdle
    /\ last = NoCall
    /\ first_op = "none"
    /\ calls = 0
    /\ decay_calls = 0

AgentDecay ==
    /\ calls < MaxAgentCalls
    /\ epsilon' = decay_exploration(epsilon, epsilon_min, decay_rate)
    /\ last' = [op |-> "decay", eps_before |-> epsilon]
    /\ calls' = calls + 1
    /\ decay_calls' = decay_calls + 1
    /\ UNCHANGED <<env_vars, q_table, hyper_vars, loop_vars, first_op>>

NextDecay == AgentDecay

SpecDecay == InitDecay /\ [][NextDecay]_vars

----------------------------------------------------------------------------
(* Claims about QLearningAgent *)

\* the decay_rate and epsilon a decaying schedule is constructed with
DecayingSchedule(eps) ==
    /\ 0 <= decay_rate
    /\ decay_rate <= Scale
    /\ 0 <= epsilon_min
    /\ epsilon_min <= eps

\* C5 as stated: for every epsilon, epsilon_min and decay_rate, after a call
\* epsilon is not below epsilon_min and not above its value before the call.
C5_DecayAllInputs ==
    last.op = "decay" =>
        /\ epsilon >= epsilon_min
        /\ epsilon <= last.eps_before

\* C5 amended: for every input epsilon is not below epsilon_min after a
\* call; it is not above its value before the call when 0 <= decay_rate <= 1
\* and 0 <= epsilon_min <= the value before the call (which then also holds
\* of the value after it).
C5_DecayBounded ==
    last.op = "decay" =>
        /\ epsilon >= epsilon_min
        /\ DecayingSchedule(last.eps_before) =>
                epsilon <= last.eps_before /\ DecayingSchedule(epsilon)

\* a second successive call on a decaying schedule lowers epsilon again
C5_Witness ==
    /\ last.op = "decay"
    /\ calls = 2
    /\ DecayingSchedule(last.eps_before)
    /\ epsilon < last.eps_before
    /\ epsilon > epsilon_min

\* C6: update_q_table(s, a, r, s') sets Q[s,a] to
\* Q[s,a] + alpha*(r + gamma*max Q[s',.] - Q[s,a]) with the maximum taken on
\* the table before the write (also when s' = s), leaves every other cell
\* unchanged, and on an all-zero table sets Q[s,a] to alpha*r.
C6_UpdateRule ==
    last.op = "update" =>
        LET qb == last.q_before
            m == CHOOSE v \in {qb[last.s2][b] : b \in Actions} :
                    \A b \in Actions : qb[last.s2][b] <= v
            old == qb[last.s][last.a]
        IN  /\ q_table[last.s][last.a]
                 = old + FxMul(alpha, Fx(last.reward) + FxMul(gamma, m) - old)
            /\ \A x \in States, y \in Actions :
                 <<x, y>> # <<last.s, last.a>> => q_table[x][y] = qb[x][y]
            /\ qb = ZeroTable =>
                 q_table[last.s][last.a] = FxMul(alpha, Fx(last.reward))

\* an update with s' = s whose own cell is the positive maximum of the row,
\* on a table that already holds another non-zero cell
C6_Witness ==
    /\ last.op = "update"
    /\ last.s2 = last.s
    /\ last.q_before[last.s][last.a] > 0
    /\ \A b \in Actions :
         b # last.a => last.q_before[last.s][b] < last.q_before[last.s][last.a]
    /\ q_table[last.s][last.a] # last.q_before[last.s][last.a]

\* C7: with epsilon = 0 choose_action returns the lowest action index whose
\* Q-value is maximal in the row, whatever the generator draws, together
\* with the catalog entry at that index.
C7_GreedyChoice ==
    (last.op = "choose" /\ epsilon = 0) =>
        /\ \A b \in Actions : q_table[last.s][b] <= q_table[last.s][last.index]
        /\ \A b \in Actions :
             b < last.index => q_table[last.s][b] < q_table[last.s][last.index]
        /\ last.entry = possible_actions[last.index + 1]

\* a greedy choice that skips action 0 although the generator drew 0
C7_Witness ==
    /\ last.op = "choose"
    /\ epsilon = 0
    /\ last.rand = 0
    /\ last.index > 0
    /\ q_table[last.s][0] < q_table[last.s][last.index]

----------------------------------------------------------------------------
(* Claims about train_agent and test_agent, checked under Spec *)

TrainPcs == {"train_reset", "train_step", "episode_end"}
TestPcs == {"test_reset", "test_step", "finished", "crashed"}

Truncated == last.op = "train_step" /\ last.outcome = "truncated"

\* C1 as stated: the step that truncates an episode (more than 10 gates,
\* threshold not reached) subtracts 100 from episode_reward and leaves the
\* Q-table as it was before the step (update_q_table is not called).
C1_TruncationSkipsUpdate ==
    Truncated =>
        /\ episode_reward = last.er_before + last.reward - 100
        /\ q_table = last.q_before

\* C1 amended: the truncating step subtracts 100 from episode_reward on top
\* of the step's reward, and update_q_table is called for that transition
\* as for any other, with the step's reward -5*11 (the extra -100 is not in
\* it): Q[s,a] becomes Q[s,a] + alpha*(r + gamma*max Q[s',.] - Q[s,a]) and
\* no other cell changes.
C1_TruncationUpdates ==
    Truncated =>
        LET qb == last.q_before
            m == CHOOSE v \in {qb[last.s2][b] : b \in Actions} :
                    \A b \in Actions : qb[last.s2][b] <= v
            old == qb[last.s][last.a]
        IN  /\ ~last.done
            /\ circuit_size(circuit) = 11
            /\ last.reward = -55
            /\ episode_reward = last.er_before + last.reward - 100
            /\ q_table[last.s][last.a]
                 = old + FxMul(alpha, Fx(last.reward) + FxMul(gamma, m) - old)
            /\ \A x \in States, y \in Actions :
                 <<x, y>> # <<last.s, last.a>> => q_table[x][y] = qb[x][y]

\* a truncating step that changed the Q-table
C1_Witness ==
    /\ Truncated
    /\ q_table # last.q_before
    /\ episode_reward = last.er_before - 155

\* C2: test_agent runs its episodes like train_agent, without the Q-table
\* update, and completes its transitions without raising an error.
C2_TestAgentCompletes ==
    pc \in TestPcs => error = "none" /\ pc # "crashed"

\* C8: decay_exploration is called exactly once per episode, after the step
\* loop, however the episode ended: while training the number of calls is
\* the number of completed episodes, and after training it is `episodes`.
C8_DecayOncePerEpisode ==
    /\ pc \in TrainPcs => decay_calls = episode
    /\ pc \in TestPcs => decay_calls = episodes
    /\ last.op = "decay" =>
         /\ last.outcome \in {"done", "truncated", "exhausted"}
         /\ epsilon = Max2(epsilon_min, FxMul(last.eps_before, decay_rate))

\* the last of several episodes ended by truncation and was followed by
\* its decay
C8_Witness ==
    /\ last.op = "decay"
    /\ last.outcome = "truncated"
    /\ pc = "test_reset"
    /\ decay_calls = MaxEpisodes
    /\ decay_calls > 1

Min2(x, y) == IF x <= y THEN x ELSE y

\* C10: an episode of train_agent makes at most min(max_steps_per_episode,
\* 11) transitions: each step appends one gate to the circuit reset emptied,
\* the loop goes on only while done is false and the circuit holds at most
\* 10 gates, so the circuit never holds more than 11 gates in training.
C10_EpisodeBounded ==
    pc \in TrainPcs \ {"train_reset"} =>
        /\ step <= Min2(max_steps_per_episode, 11)
        /\ circuit_size(circuit) = step
        /\ circuit_size(circuit) <= 11
        /\ (pc = "train_step" /\ step > 0) =>
             /\ ~last.done
             /\ circuit_size(circuit) <= 10
             /\ step < max_steps_per_episode

\* an episode that made its 11th transition with steps to spare
C10_Witness ==
    /\ pc = "episode_end"
    /\ step = 11
    /\ circuit_size(circuit) = 11
    /\ max_steps_per_episode > 11

====
